---- MODULE Spec2Model ----
(***************************************************************************)
(* Model of scripts/enumerate-igp-tunnels.py: one run of main() reads the  *)
(* previous settings (OUTFILE) and the inventory (hosts.yml), rebuilds     *)
(* igp_neighbours router by router, extends igp_wg_ports combination by    *)
(* combination and then overwrites OUTFILE.                                *)
(***************************************************************************)
EXTENDS Integers, Sequences, FiniteSets, TLC

VARIABLES
    outfile,          \* content of global-config/igp-tunnels.yml on disk
    hosts,            \* the inventory hosts.yml read by this run
    prior,            \* what _read_previous_settings() returned to this run
    data,             \* the in-memory dict `data` of main()
    seen_shortnames,  \* the dict seen_shortnames of main()
    server_ix,        \* position of the loop over dn42routers.items()
    cmb_ix,           \* position of the loop over itertools.combinations
    pc,               \* "idle", "derive", "allocate", "write", "done", "aborted";
                      \* "edited" once OUTFILE was edited after the run that wrote it
    err,              \* which ValueError ended the run, "none" otherwise
    rerun,            \* TRUE when this run repeats the previous one on the same inventory
    edits,            \* number of manual edits made to OUTFILE so far
    follow            \* how hosts.yml of this run relates to the one of the run before:
                      \* "none" (first run or unchanged), "reordered", "changed"

vars == <<outfile, hosts, prior, data, seen_shortnames, server_ix, cmb_ix,
          pc, err, rerun, edits, follow>>

----------------------------------------------------------------------------
(* Bounds of the model *)

\* largest number of entries of one igp_upstreams list
MaxUpstreams == 1

\* largest number of keys removed from OUTFILE by hand
MaxEdits == 1

\* router identifiers that may occur in hosts.yml (they contain no comma)
Ids == {"a", "b", "c"}

\* the shortname two or more routers may share
SharedShortname == "abc"

----------------------------------------------------------------------------
(* Program constants and pure helpers *)

START_PORT == 55000

EmptyMap == [x \in {} |-> 0]

Range(s) == {s[k] : k \in DOMAIN s}

\* ','.join((x, y))
Key(x, y) == x \o "," \o y

\* the template returned when OUTFILE does not exist
DefaultSettings ==
    [next_port |-> START_PORT, igp_neighbours |-> EmptyMap, igp_wg_ports |-> EmptyMap]

AbsentFile == [exists |-> FALSE, content |-> DefaultSettings]

\* OUTFILE is looked up under a path that never exists
read_previous_settings_ignoring_file(f) == DefaultSettings

read_previous_settings(f) ==
    IF f.exists THEN f.content ELSE DefaultSettings

\* dict.setdefault(k, v): the dict with k bound to v unless k is bound already
SetDefault(d, k, v) ==
    [x \in DOMAIN d \cup {k} |-> IF x \in DOMAIN d THEN d[x] ELSE v]

\* the dict with key k bound to v
Put(d, k, v) ==
    [x \in DOMAIN d \cup {k} |-> IF x = k THEN v ELSE d[x]]

\* only routers next to each other in the inventory order are combined
CombinationsNeighboursOnly(s) == [k \in 1..(Len(s) - 1) |-> <<s[k], s[k + 1]>>]

\* the index pairs (p, q) of a sequence of length n, p < q, in lexicographic order
IndexPairs(n) ==
    LET all == [k \in 1..(n * n) |-> <<((k - 1) \div n) + 1, ((k - 1) % n) + 1>>]
        Increasing(pr) == pr[1] < pr[2]
    IN  SelectSeq(all, Increasing)

\* itertools.combinations(s, 2): the pairs (s[p], s[q]), p < q, in lexicographic
\* order of (p, q)
Combinations(s) ==
    LET ix == IndexPairs(Len(s))
    IN  [k \in 1..Len(ix) |-> <<s[ix[k][1]], s[ix[k][2]]>>]

----------------------------------------------------------------------------
(* The inventory *)

OrdersOf(S) ==
    {o \in [1..Cardinality(S) -> S] : \A p, q \in 1..Cardinality(S) : o[p] = o[q] => p = q}

\* key orders of the dn42routers dict
Orders == UNION {OrdersOf(S) : S \in SUBSET Ids}

ShortnameMaps(R) ==
    {f \in [R -> Ids \cup {SharedShortname}] : \A r \in R : f[r] \in {r, SharedShortname}}

UpstreamSets(u) == {U \in SUBSET Ids : Cardinality(U) <= u}

\* the inventory with key order o, shortnames sn, upstream lists up and mesh group m
HostsYml(o, sn, up, m) ==
    [routers |-> o, shortname |-> sn, igp_upstreams |-> up, meshrouters |-> m]

NoHosts == HostsYml(<< >>, EmptyMap, EmptyMap, {})

dn42routers == hosts.routers
meshrouters == hosts.meshrouters

----------------------------------------------------------------------------
(* The steps of main() *)

\* data['igp_neighbours'].setdefault(server, set())
OwnEntry(nb, server) == SetDefault(nb, server, {})

\* the shortname test is dropped
IsDuplicateNever(shortname, seen) == FALSE

\* shortname in seen_shortnames
IsDuplicate(shortname, seen) == shortname \in DOMAIN seen

\* only the mesh routers met so far are added
MeshNeighboursSeenOnly(nb, server, mesh) ==
    IF server \in mesh
    THEN Put(nb, server, (nb[server] \cup (mesh \cap DOMAIN nb)) \ {server})
    ELSE nb

\* if server in meshrouters: neighbours |= set(meshrouters); neighbours.remove(server)
MeshNeighbours(nb, server, mesh) ==
    IF server \in mesh
    THEN Put(nb, server, (nb[server] \cup mesh) \ {server})
    ELSE nb

\* "and" in place of the xor: only mesh routers that declare upstreams are rejected
XorViolatedOnlyBoth(server, mesh, ups) == (server \in mesh) /\ (ups # {})

\* not ((server in meshrouters) ^ bool(igp_upstreams))
XorViolated(server, mesh, ups) == ~((server \in mesh) # (ups # {}))

\* the reverse edges are not added
AddUpstreamsOneWay(nb, server, ups) == Put(nb, server, nb[server] \cup ups)

\* neighbours |= igp_upstreams, then setdefault(neighbour, set()).add(server)
\* for every neighbour in igp_upstreams
AddUpstreams(nb, server, ups) ==
    LET own == Put(nb, server, nb[server] \cup ups)
    IN  [x \in DOMAIN own \cup ups |->
            (IF x \in DOMAIN own THEN own[x] ELSE {}) \cup
            (IF x \in ups THEN {server} ELSE {})]

\* the test for a known combination is dropped
NeedsNewPortAlways(ports, cmb, cmb_reverse) == TRUE

\* cmb not in ports or cmb_reverse not in ports
NeedsNewPort(ports, cmb, cmb_reverse) ==
    cmb \notin DOMAIN ports \/ cmb_reverse \notin DOMAIN ports

\* only ports[cmb] is assigned
AssignPortOneKey(ports, cmb, cmb_reverse, port) == Put(ports, cmb, port)

\* the counter is incremented before it is used
AssignPortAfterIncrement(ports, cmb, cmb_reverse, port) ==
    Put(Put(ports, cmb_reverse, port + 1), cmb, port + 1)

\* only ports[cmb_reverse] is assigned
AssignPortReverseOnly(ports, cmb, cmb_reverse, port) == Put(ports, cmb_reverse, port)

\* ports[cmb] = ports[cmb_reverse] = data['next_port']
AssignPort(ports, cmb, cmb_reverse, port) ==
    Put(Put(ports, cmb_reverse, port), cmb, port)

\* the increment is lost
AdvancePortNot(port) == port

\* the counter skips a number
AdvancePortByTwo(port) == port + 2

\* data['next_port'] += 1
AdvancePort(port) == port + 1

\* the loop over the combinations runs before the loop over the routers
PcFromAllocateFirst(h, six, cix) ==
    IF cix <= Len(Combinations(h.routers)) THEN "allocate"
    ELSE IF six <= Len(h.routers) THEN "derive"
    ELSE "write"

\* where the run continues once the two loop positions are six and cix
PcFrom(h, six, cix) ==
    IF six <= Len(h.routers) THEN "derive"
    ELSE IF cix <= Len(Combinations(h.routers)) THEN "allocate"
    ELSE "write"

server == dn42routers[server_ix]
serverdata ==
    [shortname |-> hosts.shortname[server], igp_upstreams |-> hosts.igp_upstreams[server]]

\* the igp_neighbours of the previous settings are kept
NotCleared(d) == d

\* data['igp_neighbours'].clear()
Cleared(d) == [d EXCEPT !.igp_neighbours = EmptyMap]

\* main() up to the first loop: read the previous settings and the inventory h,
\* clear igp_neighbours
Begin(h, again, kind) ==
    /\ hosts' = h
    /\ prior' = read_previous_settings(outfile)
    /\ data' = Cleared(read_previous_settings(outfile))
    /\ seen_shortnames' = EmptyMap
    /\ server_ix' = 1
    /\ cmb_ix' = 1
    /\ pc' = PcFrom(h, 1, 1)
    /\ err' = "none"
    /\ rerun' = again
    /\ follow' = kind
    /\ UNCHANGED <<outfile, edits>>

\* the script is started on some inventory whose igp_upstreams lists have at most
\* u entries
Start(u) ==
    /\ pc = "idle"
    /\ \E o \in Orders :
       \E sn \in ShortnameMaps(Range(o)) :
       \E up \in [Range(o) -> UpstreamSets(u)] :
       \E m \in SUBSET Ids :
          Begin(HostsYml(o, sn, up, m), FALSE, "none")

\* the script is started again after a successful run, hosts.yml unchanged
RunAgain ==
    /\ pc \in {"done", "edited"}
    /\ ~rerun
    /\ follow = "none"
    /\ Begin(hosts, TRUE, "none")

\* the script is started again after a successful run, the routers of hosts.yml
\* listed in another order, everything else unchanged
RunReordered ==
    /\ pc = "done"
    /\ ~rerun
    /\ follow = "none"
    /\ \E o \in OrdersOf(Range(hosts.routers)) :
          /\ o # hosts.routers
          /\ Begin([hosts EXCEPT !.routers = o], FALSE, "reordered")

\* hosts.yml without router r: its host entry and its membership of meshrouters
\* are gone, the igp_upstreams lists of the other routers are left alone
Without(h, r) ==
    LET rest == Range(h.routers) \ {r}
    IN  HostsYml(SelectSeq(h.routers, LAMBDA x : x # r),
                 [x \in rest |-> h.shortname[x]],
                 [x \in rest |-> h.igp_upstreams[x]],
                 h.meshrouters \ {r})

\* the script is started again after a successful run, one router having been
\* removed from hosts.yml
RunChanged ==
    /\ pc = "done"
    /\ ~rerun
    /\ follow = "none"
    /\ \E r \in Range(hosts.routers) : Begin(Without(hosts, r), FALSE, "changed")

\* one iteration of the loop over dn42routers that raises "Duplicate shortname"
DeriveDuplicate ==
    /\ pc = "derive"
    /\ IsDuplicate(serverdata.shortname, seen_shortnames)
    /\ data' = [data EXCEPT !.igp_neighbours = OwnEntry(@, server)]
    /\ pc' = "aborted"
    /\ err' = "duplicate"
    /\ UNCHANGED <<outfile, hosts, prior, seen_shortnames, server_ix, cmb_ix, rerun, edits, follow>>

\* one iteration that raises "must either define igp_upstreams or be part of
\* meshrouters group (and not both)"
DeriveConstraint ==
    /\ pc = "derive"
    /\ ~IsDuplicate(serverdata.shortname, seen_shortnames)
    /\ XorViolated(server, meshrouters, serverdata.igp_upstreams)
    /\ seen_shortnames' = Put(seen_shortnames, serverdata.shortname, server)
    /\ data' = [data EXCEPT !.igp_neighbours =
                    MeshNeighbours(OwnEntry(@, server), server, meshrouters)]
    /\ pc' = "aborted"
    /\ err' = "constraint"
    /\ UNCHANGED <<outfile, hosts, prior, server_ix, cmb_ix, rerun, edits, follow>>

\* one iteration that completes
DeriveOk ==
    /\ pc = "derive"
    /\ ~IsDuplicate(serverdata.shortname, seen_shortnames)
    /\ ~XorViolated(server, meshrouters, serverdata.igp_upstreams)
    /\ seen_shortnames' = Put(seen_shortnames, serverdata.shortname, server)
    /\ data' = [data EXCEPT !.igp_neighbours =
                    AddUpstreams(MeshNeighbours(OwnEntry(@, server), server, meshrouters),
                                 server, serverdata.igp_upstreams)]
    /\ server_ix' = server_ix + 1
    /\ pc' = PcFrom(hosts, server_ix + 1, cmb_ix)
    /\ UNCHANGED <<outfile, hosts, prior, cmb_ix, err, rerun, edits, follow>>

cmb == Combinations(dn42routers)[cmb_ix]
cmb_key == Key(cmb[1], cmb[2])
cmb_reverse == Key(cmb[2], cmb[1])

\* one iteration of the loop over the combinations: "Adding port"
AllocNew ==
    /\ pc = "allocate"
    /\ NeedsNewPort(data.igp_wg_ports, cmb_key, cmb_reverse)
    /\ data' = [data EXCEPT
                  !.igp_wg_ports = AssignPort(@, cmb_key, cmb_reverse, data.next_port),
                  !.next_port = AdvancePort(@)]
    /\ cmb_ix' = cmb_ix + 1
    /\ pc' = PcFrom(hosts, server_ix, cmb_ix + 1)
    /\ UNCHANGED <<outfile, hosts, prior, seen_shortnames, server_ix, err, rerun, edits, follow>>

\* one iteration of the loop over the combinations: "Using existing port"
AllocExisting ==
    /\ pc = "allocate"
    /\ ~NeedsNewPort(data.igp_wg_ports, cmb_key, cmb_reverse)
    /\ cmb_ix' = cmb_ix + 1
    /\ pc' = PcFrom(hosts, server_ix, cmb_ix + 1)
    /\ UNCHANGED <<outfile, hosts, prior, data, seen_shortnames, server_ix, err, rerun, edits, follow>>

\* what open(OUTFILE, 'w') and the two writes leave on disk
Written(d) == [exists |-> TRUE, content |-> d]

\* OUTFILE is overwritten with data
Write ==
    /\ pc = "write"
    /\ outfile' = Written(data)
    /\ pc' = "done"
    /\ UNCHANGED <<hosts, prior, data, seen_shortnames, server_ix, cmb_ix, err, rerun, edits, follow>>

\* the process ends (after the write, or by the unhandled ValueError)
Exit ==
    /\ pc \in {"done", "aborted", "edited"}
    /\ pc' = "idle"
    /\ hosts' = NoHosts
    /\ prior' = DefaultSettings
    /\ data' = DefaultSettings
    /\ seen_shortnames' = EmptyMap
    /\ server_ix' = 1
    /\ cmb_ix' = 1
    /\ err' = "none"
    /\ rerun' = FALSE
    /\ follow' = "none"
    /\ UNCHANGED <<outfile, edits>>

\* after a run has written, somebody removes one key from igp_wg_ports in
\* OUTFILE (a manual edit, a truncated write)
ManualEdit ==
    /\ pc \in {"done", "edited"}
    /\ pc' = "edited"
    /\ edits < MaxEdits
    /\ outfile.exists
    /\ \E k \in DOMAIN outfile.content.igp_wg_ports :
          outfile' = [outfile EXCEPT !.content.igp_wg_ports =
                         [x \in DOMAIN @ \ {k} |-> @[x]]]
    /\ edits' = edits + 1
    /\ UNCHANGED <<hosts, prior, data, seen_shortnames, server_ix, cmb_ix, err, rerun, follow>>

Init ==
    /\ outfile = AbsentFile
    /\ hosts = NoHosts
    /\ prior = DefaultSettings
    /\ data = DefaultSettings
    /\ seen_shortnames = EmptyMap
    /\ server_ix = 1
    /\ cmb_ix = 1
    /\ pc = "idle"
    /\ err = "none"
    /\ rerun = FALSE
    /\ edits = 0
    /\ follow = "none"

Steps ==
    \/ DeriveOk
    \/ DeriveDuplicate
    \/ DeriveConstraint
    \/ AllocNew
    \/ AllocExisting
    \/ Write

\* one run from the absent file on any inventory, then one more run: on the same
\* hosts.yml (OUTFILE possibly edited by hand in between), on the same routers
\* in another order, or with one router removed
Next ==
    \/ Start(MaxUpstreams)
    \/ Steps
    \/ ManualEdit
    \/ RunAgain
    \/ RunReordered
    \/ RunChanged

Spec == Init /\ [][Next]_vars

\* any number of runs, the routers, their order, their shortnames and the mesh
\* group changing between them; no router declares igp_upstreams here, which the
\* loop over the combinations never reads
NextRuns ==
    \/ Start(0)
    \/ Steps
    \/ Exit

SpecRuns == Init /\ [][NextRuns]_vars

----------------------------------------------------------------------------
(* Vocabulary of the properties *)

Routers == Range(dn42routers)

\* the entries of OUTFILE as the next run will find them
PortsOnDisk == outfile.content.igp_wg_ports
NextPortOnDisk == outfile.content.next_port
NeighboursOnDisk == outfile.content.igp_neighbours

\* the unordered pairs of inventory routers of which table p holds neither key
UnallocatedPairs(p) ==
    {pr \in {{x, y} : x, y \in Routers} :
        /\ Cardinality(pr) = 2
        /\ \A x, y \in pr : x # y => Key(x, y) \notin DOMAIN p}

\* next_port is strictly greater than every port of the table
CounterBound(st) == \A k \in DOMAIN st.igp_wg_ports : st.next_port > st.igp_wg_ports[k]

IsBoth(r) == r \in meshrouters /\ hosts.igp_upstreams[r] # {}
IsNeither(r) == r \notin meshrouters /\ hosts.igp_upstreams[r] = {}
ShortnamesUnique ==
    \A r1, r2 \in Routers : hosts.shortname[r1] = hosts.shortname[r2] => r1 = r2

\* the loop over the routers is over: it completed or it raised
DerivationOver == pc \in {"aborted", "allocate", "write", "done", "edited"}

----------------------------------------------------------------------------
(* C1: from the absent file and over any sequence of runs with changing       *)
(* inventories, every key of igp_wg_ports on disk stays on disk with the same *)
(* port number: no step removes or renumbers an entry.                        *)
PortsNeverRemovedOrRenumbered ==
    [][\A k \in DOMAIN PortsOnDisk :
          /\ k \in DOMAIN outfile'.content.igp_wg_ports
          /\ outfile'.content.igp_wg_ports[k] = PortsOnDisk[k]]_vars

\* a run that allocated new ports has written the table, and the table still
\* holds a key of a router that is no longer in the inventory
RouterLeftPortKept ==
    /\ pc = "done"
    /\ NextPortOnDisk > prior.next_port
    /\ \E x, y \in Ids :
          /\ x \notin Routers
          /\ Key(x, y) \in DOMAIN prior.igp_wg_ports
          /\ Key(x, y) \in DOMAIN PortsOnDisk

(* C2: when the previous table holds exactly one of the keys "A,B" and "B,A"  *)
(* of two inventory routers, the run stores the existing value under both     *)
(* keys and advances next_port only for the pairs that had neither key.       *)
SingleKeyIsReused ==
    pc = "done" =>
        /\ \A x, y \in Routers :
              (/\ x # y
               /\ Key(x, y) \in DOMAIN prior.igp_wg_ports
               /\ Key(y, x) \notin DOMAIN prior.igp_wg_ports)
              => /\ PortsOnDisk[Key(x, y)] = prior.igp_wg_ports[Key(x, y)]
                 /\ PortsOnDisk[Key(y, x)] = prior.igp_wg_ports[Key(x, y)]
        /\ NextPortOnDisk =
              prior.next_port + Cardinality(UnallocatedPairs(prior.igp_wg_ports))

(* C3: over any sequence of runs from the absent file, next_port on disk is   *)
(* strictly greater than every port of the table on disk, and a run that      *)
(* starts from settings with that bound keeps it at every step, whatever the  *)
(* inventory.                                                                 *)
CounterExceedsEveryPort ==
    /\ CounterBound(outfile.content)
    /\ CounterBound(prior) => CounterBound(data)

\* a run has written that allocated two new ports on top of a table that held one
CounterAdvancedByTwo ==
    /\ pc = "done"
    /\ DOMAIN prior.igp_wg_ports # {}
    /\ CounterBound(prior)
    /\ NextPortOnDisk = prior.next_port + 2

(* C4: two keys of the table on disk carry the same port only if they are    *)
(* the two orderings of one pair of routers.                                  *)
CollisionFree ==
    \A k1, k2 \in DOMAIN PortsOnDisk :
        PortsOnDisk[k1] = PortsOnDisk[k2] =>
            \/ k1 = k2
            \/ \E x, y \in Ids : k1 = Key(x, y) /\ k2 = Key(y, x)

\* three pairs hold ports, allocated by at least two runs
ThreePairsOverSeveralRuns ==
    /\ pc = "done"
    /\ Cardinality(DOMAIN PortsOnDisk) = 6
    /\ Cardinality(DOMAIN prior.igp_wg_ports) = 2

(* C5: for every key "A,B" of the table on disk the key "B,A" is on disk too  *)
(* and holds the same port.                                                   *)
TableIsSymmetric ==
    \A k \in DOMAIN PortsOnDisk :
        \E x, y \in Ids :
            /\ k = Key(x, y)
            /\ Key(y, x) \in DOMAIN PortsOnDisk
            /\ PortsOnDisk[Key(y, x)] = PortsOnDisk[k]

\* a run over two routers has added their pair to a table that held another pair
SecondPairAdded ==
    /\ pc = "done"
    /\ Len(dn42routers) = 2
    /\ Cardinality(DOMAIN prior.igp_wg_ports) = 2
    /\ Cardinality(DOMAIN PortsOnDisk) = 4

(* C6: after a successful run the table on disk holds, for every two distinct *)
(* inventory routers, both keys with one port, adjacent or not and whatever   *)
(* the previous table was.                                                    *)
EveryPairHasPort ==
    pc = "done" =>
        \A x, y \in Routers :
            x # y => /\ Key(x, y) \in DOMAIN PortsOnDisk
                     /\ Key(y, x) \in DOMAIN PortsOnDisk
                     /\ PortsOnDisk[Key(x, y)] = PortsOnDisk[Key(y, x)]

\* a run has written whose previous table held one key only of two routers
\* that are not neighbours
NonAdjacentPairHealed ==
    /\ pc = "done"
    /\ \E x, y \in Routers :
          /\ x # y
          /\ y \notin NeighboursOnDisk[x]
          /\ Key(x, y) \in DOMAIN prior.igp_wg_ports
          /\ Key(y, x) \notin DOMAIN prior.igp_wg_ports

(* C7: a second run on the unchanged inventory, fed the unedited output of    *)
(* the first, allocates no port and writes what the first run wrote.          *)
RerunIsIdempotent ==
    (pc = "done" /\ rerun /\ edits = 0) =>
        /\ outfile.content = prior
        /\ data.next_port = prior.next_port

\* the second run over three routers, one of them a leaf, has written
RerunOfThreeRouters ==
    /\ pc = "done"
    /\ rerun
    /\ edits = 0
    /\ Len(dn42routers) = 3
    /\ \E r \in Routers : hosts.igp_upstreams[r] # {}

(* C8: a run that raises leaves OUTFILE as it read it and has allocated no    *)
(* port; OUTFILE changes only in the write that follows the completed loops.  *)
FailedRunWritesNothing ==
    /\ [](pc = "aborted" =>
            /\ outfile.content = prior
            /\ data.igp_wg_ports = prior.igp_wg_ports
            /\ data.next_port = prior.next_port)
    /\ [][outfile' # outfile =>
            /\ pc = "write"
            /\ err = "none"
            /\ server_ix > Len(dn42routers)
            /\ cmb_ix > Len(Combinations(dn42routers))]_vars

\* a run on an existing file raised "Duplicate shortname" although the
\* inventory has a pair without a port
AbortedWithUnallocatedPair ==
    /\ pc = "aborted"
    /\ err = "duplicate"
    /\ outfile.exists
    /\ DOMAIN PortsOnDisk # {}
    /\ UnallocatedPairs(prior.igp_wg_ports) # {}

(* C9 as stated: a run raises the constraint error if some router is both a   *)
(* mesh router and declares upstreams, or is neither; a run whose routers all *)
(* satisfy exactly one of the two and have unique shortnames does not raise.  *)
XorErrorWheneverViolated ==
    DerivationOver =>
        /\ (\E r \in Routers : IsBoth(r) \/ IsNeither(r))
              => (pc = "aborted" /\ err = "constraint")
        /\ ((\A r \in Routers : ~IsBoth(r) /\ ~IsNeither(r)) /\ ShortnamesUnique)
              => pc # "aborted"

(* C9 amended: such a run raises; the error is the constraint error whenever  *)
(* the shortnames are unique; a run whose routers all satisfy exactly one of  *)
(* the two and have unique shortnames does not raise.                         *)
XorViolationAborts ==
    DerivationOver =>
        /\ (\E r \in Routers : IsBoth(r) \/ IsNeither(r)) => pc = "aborted"
        /\ ((\E r \in Routers : IsBoth(r) \/ IsNeither(r)) /\ ShortnamesUnique)
              => err = "constraint"
        /\ ((\A r \in Routers : ~IsBoth(r) /\ ~IsNeither(r)) /\ ShortnamesUnique)
              => pc # "aborted"

\* the constraint error was raised for a mesh router that declares upstreams,
\* after a leaf had been accepted
ConstraintRaisedForBoth ==
    /\ pc = "aborted"
    /\ err = "constraint"
    /\ server_ix > 1
    /\ IsBoth(server)

(* C10: after a successful run any two distinct mesh routers of the inventory *)
(* are in each other's neighbour set.                                         *)
MeshIsClique ==
    pc = "done" =>
        \A x, y \in Routers \cap meshrouters :
            x # y => /\ y \in NeighboursOnDisk[x]
                     /\ x \in NeighboursOnDisk[y]

\* a run has written in which a leaf that names a mesh router as upstream was
\* processed before the two mesh routers
LeafBeforeMesh ==
    /\ pc = "done"
    /\ Len(dn42routers) = 3
    /\ dn42routers[1] \notin meshrouters
    /\ hosts.igp_upstreams[dn42routers[1]] \subseteq meshrouters
    /\ {dn42routers[2], dn42routers[3]} \subseteq meshrouters

(* C11: after a successful run, for every inventory router A and every B of   *)
(* its igp_upstreams, B is a neighbour of A and A is a neighbour of B,        *)
(* wherever B is listed in the inventory and whether B is a mesh router or a  *)
(* leaf.                                                                      *)
UpstreamsAreReciprocal ==
    pc = "done" =>
        \A A \in Routers : \A B \in hosts.igp_upstreams[A] :
            /\ A \in DOMAIN NeighboursOnDisk
            /\ B \in NeighboursOnDisk[A]
            /\ B \in DOMAIN NeighboursOnDisk
            /\ A \in NeighboursOnDisk[B]

\* a leaf is listed before its upstream, the upstream is a mesh router with
\* another mesh router beside it, and the run has written
UpstreamListedAfterLeaf ==
    /\ pc = "done"
    /\ \E i, j \in DOMAIN dn42routers :
          /\ i < j
          /\ dn42routers[j] \in hosts.igp_upstreams[dn42routers[i]]
          /\ dn42routers[j] \in meshrouters
          /\ \E m \in meshrouters \cap Routers : m # dn42routers[j]

\* table p holds both keys of a pair or neither
IsSymmetric(p) ==
    \A x, y \in Ids : Key(x, y) \in DOMAIN p <=> Key(y, x) \in DOMAIN p

\* the port numbers table p holds for the unordered pairs of prs
PortsOfPairs(p, prs) ==
    {p[Key(x, y)] : <<x, y>> \in {z \in Routers \X Routers : {z[1], z[2]} \in prs}}

(* C12: a successful run whose previous table is symmetric gives the k        *)
(* inventory pairs that had no port exactly the numbers previous next_port .. *)
(* previous next_port + k - 1, one number per pair, and writes next_port =    *)
(* previous next_port + k; from the absent file n routers end with next_port  *)
(* = 55000 + n(n-1)/2.                                                        *)
NewPortsAreConsecutive ==
    (pc = "done" /\ IsSymmetric(prior.igp_wg_ports)) =>
        LET new == UnallocatedPairs(prior.igp_wg_ports)
            k == Cardinality(new)
            n == Cardinality(Routers)
        IN  /\ NextPortOnDisk = prior.next_port + k
            /\ PortsOfPairs(PortsOnDisk, new) = prior.next_port .. (prior.next_port + k - 1)
            /\ \A pr \in new : Cardinality(PortsOfPairs(PortsOnDisk, {pr})) = 1
            /\ (prior = DefaultSettings) =>
                   (NextPortOnDisk = START_PORT + (n * (n - 1)) \div 2)

\* a third router was added to two routers that had their port: the run gave
\* it two new ports
RouterAddedToAllocatedPair ==
    /\ pc = "done"
    /\ Cardinality(Routers) = 3
    /\ prior.next_port > START_PORT
    /\ Cardinality(UnallocatedPairs(prior.igp_wg_ports)) = 2
    /\ NextPortOnDisk = prior.next_port + 2

\* position in the inventory of the first router whose shortname an earlier
\* router has (0 when the shortnames are unique)
SecondHolder ==
    LET dup == {j \in DOMAIN dn42routers : \E i \in 1..(j - 1) :
                   hosts.shortname[dn42routers[i]] = hosts.shortname[dn42routers[j]]}
    IN  IF dup = {} THEN 0 ELSE CHOOSE j \in dup : \A q \in dup : j <= q

(* C13 as stated: when two inventory routers share a shortname the run aborts *)
(* with the duplicate-shortname error, no adjacency entry having been built   *)
(* and no other error being raised instead.                                   *)
DuplicateAbortsBeforeAdjacency ==
    (DerivationOver /\ ~ShortnamesUnique) =>
        /\ pc = "aborted"
        /\ err = "duplicate"
        /\ data.igp_neighbours = EmptyMap

(* C13 amended: when two inventory routers share a shortname the run aborts   *)
(* in the loop over the routers, no port allocated and nothing written; the   *)
(* error is the duplicate-shortname error unless a router listed before the   *)
(* second holder of the shared name breaks the mesh/upstream rule; and when   *)
(* it is the duplicate-shortname error the adjacency entries of the routers   *)
(* listed up to the second holder exist in memory.                            *)
DuplicateAbortsDerivation ==
    (DerivationOver /\ ~ShortnamesUnique) =>
        /\ pc = "aborted"
        /\ err \in {"duplicate", "constraint"}
        /\ (err = "duplicate") <=>
               (\A i \in 1..(SecondHolder - 1) :
                   ~IsBoth(dn42routers[i]) /\ ~IsNeither(dn42routers[i]))
        /\ data.igp_wg_ports = prior.igp_wg_ports
        /\ data.next_port = prior.next_port
        /\ outfile.content = prior
        /\ (err = "duplicate") =>
               (\A i \in 1..SecondHolder : dn42routers[i] \in DOMAIN data.igp_neighbours)

\* the run aborted on a duplicate shortname after it had given an earlier
\* router its neighbours
DuplicateAfterBuiltAdjacency ==
    /\ pc = "aborted"
    /\ err = "duplicate"
    /\ \E r \in DOMAIN data.igp_neighbours : data.igp_neighbours[r] # {}

\* what hosts.yml alone says the neighbours of x are: the other mesh routers if
\* x is one, the upstreams x declares, the routers that declare x
NeighboursByInventory(x) ==
    (IF x \in meshrouters THEN meshrouters \ {x} ELSE {})
        \cup (IF x \in Routers THEN hosts.igp_upstreams[x] ELSE {})
        \cup {L \in Routers : x \in hosts.igp_upstreams[L]}

(* C14: after a successful run the neighbours of every inventory router R are *)
(* exactly the other mesh routers (if R is one), the upstreams of R and the   *)
(* routers that name R as upstream, whatever igp_neighbours the previous      *)
(* settings held and whatever the order of the inventory; every other key of  *)
(* the table is an upstream some router names, with those routers as its      *)
(* neighbours, so nothing of the previous adjacency survives by itself.       *)
AdjacencyFromInventoryOnly ==
    pc = "done" =>
        /\ \A R \in Routers :
              /\ R \in DOMAIN NeighboursOnDisk
              /\ NeighboursOnDisk[R] = NeighboursByInventory(R)
        /\ \A K \in DOMAIN NeighboursOnDisk \ Routers :
              /\ NeighboursOnDisk[K] = {L \in Routers : K \in hosts.igp_upstreams[L]}
              /\ NeighboursOnDisk[K] # {}

\* a router left the inventory and the run has written: a router that stayed
\* has lost a neighbour the previous settings gave it
StaleNeighbourDropped ==
    /\ pc = "done"
    /\ follow = "changed"
    /\ \E R \in Routers \cap DOMAIN prior.igp_neighbours :
          prior.igp_neighbours[R] \ NeighboursOnDisk[R] # {}

\* both keys of every pair of distinct inventory routers
AllKeys == {Key(x, y) : <<x, y>> \in {z \in Routers \X Routers : z[1] # z[2]}}

\* the unordered pairs of inventory routers of which table p lacks a key
PairsLackingKey(p) ==
    {pr \in {{x, y} : x, y \in Routers} :
        /\ Cardinality(pr) = 2
        /\ \E x, y \in pr : x # y /\ Key(x, y) \notin DOMAIN p}

(* C15: a run on the routers of the previous successful run, listed in        *)
(* another order, allocates nothing: at every step the table and next_port    *)
(* are the previous ones, and so is what it writes; and for any previous      *)
(* table the keys and the next_port a successful run writes are determined by *)
(* the previous settings and the set of routers, not by their order.          *)
ReorderingAllocatesNothing ==
    /\ (follow = "reordered" /\ pc # "edited") =>
          /\ data.igp_wg_ports = prior.igp_wg_ports
          /\ data.next_port = prior.next_port
          /\ PortsOnDisk = prior.igp_wg_ports
          /\ NextPortOnDisk = prior.next_port
    /\ pc = "done" =>
          /\ DOMAIN PortsOnDisk = DOMAIN prior.igp_wg_ports \cup AllKeys
          /\ NextPortOnDisk =
                prior.next_port + Cardinality(PairsLackingKey(prior.igp_wg_ports))

\* three routers were listed in another order and the run has written
ReorderedThreeRouters ==
    /\ pc = "done"
    /\ follow = "reordered"
    /\ Cardinality(Routers) = 3
    /\ prior.next_port = START_PORT + 3

(* C16: after a successful run no key of the adjacency table is a member of   *)
(* its own neighbour set.                                                     *)
NoRouterIsItsOwnNeighbour ==
    pc = "done" =>
        \A R \in DOMAIN NeighboursOnDisk : R \notin NeighboursOnDisk[R]

(* C17: after a successful run the keys of the adjacency table are exactly    *)
(* the inventory routers and every neighbour in it is an inventory router.    *)
AdjacencyClosedOverInventory ==
    pc = "done" =>
        /\ DOMAIN NeighboursOnDisk = Routers
        /\ \A R \in DOMAIN NeighboursOnDisk : NeighboursOnDisk[R] \subseteq Routers

====
